---- MODULE Spec2Model ----
(***************************************************************************)
(* A model of the transport-and-streaming core of shiplift.                *)
(*                                                                         *)
(*   SpecTty  : the TTY demultiplexer of src/tty.rs.  A byte stream is     *)
(*              delivered in arbitrary pieces to the buffer of a           *)
(*              TtyDecoder, whose decode() is re-invoked at will; the      *)
(*              reader-driven chunks() consumes the same byte stream.      *)
(*   SpecHttp : the finalizers of src/http_client/request.rs and the       *)
(*              daemon operations built on them.                           *)
(*   SpecBuild: the builder methods of RequestBuilder and into_request.    *)
(*   SpecUds  : the URIs of the Unix-domain socket transports.             *)
(*   SpecClient: requests issued through handles on one HttpClient.        *)
(*   SpecList : the container List builder polled as a future.             *)
(***************************************************************************)
EXTENDS Integers, Sequences, FiniteSets, TLC

VARIABLES
    \* ---- the byte stream (tty.rs) ----
    frames,     \* the frames the remote end encodes
    stream,     \* the bytes the remote end sends, in order
    pos,        \* how many of them the transport has delivered so far
    eof,        \* the transport has signalled end of stream
    \* ---- TtyDecoder and the buffer it is given (tty.rs 48-150) ----
    state,      \* TtyDecoder.state
    src,        \* the BytesMut buffer handed to decode()
    ret,        \* what the last decode() call returned
    out,        \* the chunks decode() returned so far, in order
    headerLog,  \* the lengths traced at tty.rs 118-122, in order
    \* ---- chunks(), the reader-driven frame reader (tty.rs 212-241) ----
    rdPos,      \* how many bytes of the stream read_exact has taken
    rdStage,    \* which read_exact of the unfold closure is pending
    rdOut,      \* the chunks the stream yielded so far
    rdEnd,      \* how the stream ended, "" while it runs
    \* ---- one request through RequestBuilder (request.rs) ----
    op,         \* the finalizer or daemon operation being run
    pc,         \* its position
    status,     \* the status code of the response, 0 before there is one
    body,       \* the response body: the chunks the transport will deliver
    taken,      \* how many items of the body have been pulled so far
    acc,        \* the bytes concat() has gathered
    result,     \* the terminal outcome handed to the caller
    sent,       \* how many times send_request was invoked
    pulls,      \* how many times body.next() was called on the response body
    items,      \* the items a stream finalizer has yielded so far
    \* ---- a RequestBuilder being configured (request.rs 17-117) ----
    builder,    \* its fields: method, headers, uri_base, query, body
    calls,      \* the builder calls made on it, in order
    request,    \* what into_request returned, or that a call panicked
    \* ---- the Unix-domain socket URIs (transport/uds.rs) ----
    socket,     \* the bytes of the socket path
    endpoint,   \* the endpoint of the request
    uri,        \* the URI text last produced, and by what
    parsed,     \* what parse_socket_path returned for it
    \* ---- one HttpClient shared by handles (http_client.rs, docker.rs) ----
    client,     \* the HttpClient behind the Arc: its variant and address
    handles,    \* how many handles (Docker, Containers, ..) hold the Arc
    reqs,       \* the requests issued through the handles, by number
    \* ---- the container List builder (containers/requests/list.rs) ----
    future,     \* Builder.future: None, or the state of the inner future
    made,       \* how many inner futures poll has constructed
    gets,       \* the GET /containers/json requests dispatched, in order
    polled,     \* what the polls of the builder returned, in order
    arrived     \* the response is there for the inner future to take

ttyVars  == <<frames, stream, pos, eof, state, src, ret, out, headerLog,
              rdPos, rdStage, rdOut, rdEnd>>
httpVars == <<op, pc, status, body, taken, acc, result, sent, pulls, items>>
buildVars == <<builder, calls, request>>
udsVars  == <<socket, endpoint, uri, parsed>>
clientVars == <<client, handles, reqs>>
listVars == <<future, made, gets, polled, arrived>>
vars     == <<frames, stream, pos, eof, state, src, ret, out, headerLog,
              rdPos, rdStage, rdOut, rdEnd,
              op, pc, status, body, taken, acc, result, sent, pulls, items,
              builder, calls, request, socket, endpoint, uri, parsed,
              client, handles, reqs, future, made, gets, polled, arrived>>

---------------------------------------------------------------------------
(* Bounds *)

\* the largest number of frames the remote end sends on one connection
MaxFrames == 2

---------------------------------------------------------------------------
(* Sequences of bytes *)

Take(s, n) == SubSeq(s, 1, n)
Drop(s, n) == SubSeq(s, n + 1, Len(s))

RECURSIVE Flatten(_)
Flatten(ss) == IF ss = <<>> THEN <<>> ELSE Head(ss) \o Flatten(Tail(ss))

IsPrefix(s, t) == Len(s) <= Len(t) /\ Take(t, Len(s)) = s

---------------------------------------------------------------------------
(* The TTY wire protocol: what the daemon sends *)

\* the payloads the modelled daemon sends
Payloads == { <<>>, <<104, 101, 108, 108, 111>> }

\* the first byte of a header: 0, 1, 2 name a stream, 3 names none
OriginBytes == {0, 1, 2, 3}

\* the three bytes after the origin byte, which carry nothing
ReservedBytes == { <<0, 0, 0>>, <<9, 8, 7>> }

\* a length as four bytes, most significant first
U32BigEndian(n) ==
    << (n \div 16777216) % 256, (n \div 65536) % 256, (n \div 256) % 256, n % 256 >>

\* one frame on the wire
EncodeFrame(f) ==
    <<f.origin>> \o f.reserved \o U32BigEndian(Len(f.payload)) \o f.payload

EncodeFrames(fs) == Flatten([i \in 1..Len(fs) |-> EncodeFrame(fs[i])])

FrameSpecs(reserved) ==
    [origin : OriginBytes, reserved : {reserved}, payload : Payloads]

\* the byte streams of the model: up to MaxFrames frames
FrameSeqs ==
    UNION { UNION { [1..n -> FrameSpecs(r)] : n \in 0..MaxFrames } : r \in ReservedBytes }

---------------------------------------------------------------------------
(* TtyDecoder (tty.rs 40-150) *)

HeaderLen == 8

WaitingHeader == [tag |-> "WaitingHeader"]
WaitingPayload(len, stream_type) ==
    [tag |-> "WaitingPayload", len |-> len, stream_type |-> stream_type]

Chunk(stream_type, data) == [stream_type |-> stream_type, data |-> data]

\* what a decode() call returns: Ok(None), Ok(Some(chunk)), Err(..)
Returned(kind) == [kind |-> kind, what |-> ""]

\* Err(Error::InvalidResponse("Unsupported stream of type ..")), for the
\* first byte b of a header
InvalidResponse(b) ==
    [kind |-> "InvalidResponse", what |-> IF b = 0 THEN "stdin" ELSE ToString(b)]

\* Cursor::new(&payload_size).read_u32::<BigEndian>()
ReadU32BigEndian(b) == ((b[1] * 256 + b[2]) * 256 + b[3]) * 256 + b[4]

\* the match on header_bytes[0] in decode(); "" is the two Err arms
DecodeStreamType(b) ==
    CASE b = 1 -> "StdOut"
      [] b = 2 -> "StdErr"
      [] OTHER -> ""

\* src.len() < 8
HeaderShort(buf) == Len(buf) < HeaderLen

\* src.len() < len
PayloadShort(buf, len) == Len(buf) < len

\* PayloadStep with the wait for the full payload left out: it emits
\* whatever is buffered
PayloadStepPartial(st, buf, log) ==
    LET n == IF Len(buf) < st.len THEN Len(buf) ELSE st.len IN
    [state |-> WaitingHeader,
     src   |-> Drop(buf, n),
     ret   |-> Returned("Chunk"),
     item  |-> <<Chunk(st.stream_type, Take(buf, n))>>,
     log   |-> log]

\* PayloadStep with the return to WaitingHeader left out
PayloadStepKeepsState(st, buf, log) ==
    IF Len(buf) < st.len
    THEN [state |-> st, src |-> buf, ret |-> Returned("NeedMore"), item |-> <<>>, log |-> log]
    ELSE [state |-> st,
          src   |-> Drop(buf, st.len),
          ret   |-> Returned("Chunk"),
          item  |-> <<Chunk(st.stream_type, Take(buf, st.len))>>,
          log   |-> log]

\* PayloadStep that, when the payload is short, rewrites the pending length
\* to what is still missing although the buffered bytes are left in place
PayloadStepRecounts(st, buf, log) ==
    IF Len(buf) < st.len
    THEN [state |-> WaitingPayload(st.len - Len(buf), st.stream_type),
          src |-> buf, ret |-> Returned("NeedMore"), item |-> <<>>, log |-> log]
    ELSE [state |-> WaitingHeader,
          src   |-> Drop(buf, st.len),
          ret   |-> Returned("Chunk"),
          item  |-> <<Chunk(st.stream_type, Take(buf, st.len))>>,
          log   |-> log]

\* The WaitingPayload arm of decode()
PayloadStep(st, buf, log) ==
    IF PayloadShort(buf, st.len)
    THEN [state |-> st, src |-> buf, ret |-> Returned("NeedMore"), item |-> <<>>, log |-> log]
    ELSE [state |-> WaitingHeader,
          src   |-> Drop(buf, st.len),
          ret   |-> Returned("Chunk"),
          item  |-> <<Chunk(st.stream_type, Take(buf, st.len))>>,
          log   |-> log]

\* HeaderStep that throws away a header that is still incomplete
HeaderStepDropsShort(st, buf) ==
    IF Len(buf) < HeaderLen
    THEN [state |-> st, src |-> <<>>, ret |-> Returned("NeedMore"), item |-> <<>>, log |-> <<>>]
    ELSE LET header_bytes == Take(buf, HeaderLen)
             rest         == Drop(buf, HeaderLen)
             stream_type  == DecodeStreamType(header_bytes[1])
             length       == ReadU32BigEndian(SubSeq(header_bytes, 5, 8))
         IN  IF stream_type = ""
             THEN [state |-> st, src |-> rest, ret |-> InvalidResponse(header_bytes[1]),
                   item |-> <<>>, log |-> <<>>]
             ELSE PayloadStep(WaitingPayload(length, stream_type), rest, <<length>>)

\* The WaitingHeader arm of decode(), followed (continue) by the payload arm
HeaderStep(st, buf) ==
    IF HeaderShort(buf)
    THEN [state |-> st, src |-> buf, ret |-> Returned("NeedMore"), item |-> <<>>, log |-> <<>>]
    ELSE LET header_bytes == Take(buf, HeaderLen)
             rest         == Drop(buf, HeaderLen)
             payload_size == SubSeq(header_bytes, 5, 8)
             stream_type  == DecodeStreamType(header_bytes[1])
             length       == ReadU32BigEndian(payload_size)
         IN  IF stream_type = ""
             THEN [state |-> st, src |-> rest, ret |-> InvalidResponse(header_bytes[1]),
                   item |-> <<>>, log |-> <<>>]
             ELSE PayloadStep(WaitingPayload(length, stream_type), rest, <<length>>)

\* decode that, having emitted a chunk, goes round its loop once more
DecodeCallAgain(st, buf) ==
    LET r == IF st.tag = "WaitingHeader" THEN HeaderStep(st, buf)
             ELSE PayloadStep(st, buf, <<>>)
        q == HeaderStep(r.state, r.src)
    IN  IF r.ret.kind = "Chunk" /\ q.ret.kind = "Chunk"
        THEN [state |-> q.state, src |-> q.src, ret |-> q.ret,
              item |-> r.item \o q.item, log |-> r.log \o q.log]
        ELSE r

\* decode that loses the last buffered byte when it asks for more input
DecodeCallLosesByte(st, buf) ==
    LET r == IF st.tag = "WaitingHeader" THEN HeaderStep(st, buf)
             ELSE PayloadStep(st, buf, <<>>)
    IN  IF r.ret.kind = "NeedMore" /\ r.src # <<>>
        THEN [r EXCEPT !.src = Take(r.src, Len(r.src) - 1)]
        ELSE r

\* One call of TtyDecoder::decode
DecodeCall(st, buf) ==
    IF st.tag = "WaitingHeader" THEN HeaderStep(st, buf) ELSE PayloadStep(st, buf, <<>>)

---------------------------------------------------------------------------
(* chunks() (tty.rs 212-241) *)

\* the match on header_bytes[0] in chunks(); "" is the panic! arm
ChunksStreamType(b) ==
    CASE b = 0 -> "StdIn"
      [] b = 1 -> "StdOut"
      [] b = 2 -> "StdErr"
      [] OTHER -> ""

\* BigEndian::read_u32(size_bytes)
ChunksLength(header_bytes) == ReadU32BigEndian(SubSeq(header_bytes, 5, 8))

\* the bytes delivered and not yet taken by read_exact
RdAvail == pos - rdPos

\* the number of bytes the pending read_exact asks for
RdNeed == IF rdStage.tag = "header" THEN HeaderLen ELSE rdStage.len

---------------------------------------------------------------------------
(* Responses (request.rs 119-149, 233-252) *)

\* the largest number of chunks the transport cuts a response body into
MaxChunks == 2

\* into_body with no status taken as a fault
IsSuccessStatusEvery(code) == TRUE

\* the success arm widened to every 2xx status
IsSuccessStatusAny2xx(code) == code = 101 \/ (code >= 200 /\ code <= 299)

\* the success arm without SWITCHING_PROTOCOLS
IsSuccessStatusNo101(code) == code \in {200, 201, 204}

\* StatusCode::OK | CREATED | SWITCHING_PROTOCOLS | NO_CONTENT
IsSuccessStatus(code) == code \in {200, 201, 101, 204}

\* the status codes the modelled daemon answers with
Statuses == {101, 200, 201, 202, 204, 404, 500, 599}

\* StatusCode::canonical_reason(), None as ""
CanonicalReason(code) ==
    CASE code = 101 -> "Switching Protocols"
      [] code = 200 -> "OK"
      [] code = 201 -> "Created"
      [] code = 202 -> "Accepted"
      [] code = 204 -> "No Content"
      [] code = 404 -> "Not Found"
      [] code = 500 -> "Internal Server Error"
      [] OTHER      -> ""

\* Body texts, as sequences of lexical tokens standing for runs of bytes:
\* punctuation, string literals, numbers, and bytes that are no JSON
Punct(c)  == [t |-> "punct", v |-> c]
Str(x)    == [t |-> "str", v |-> x]
Num(x)    == [t |-> "num", v |-> x]
Raw(x)    == [t |-> "raw", v |-> x]

\* {"message":"no such container: abc"}
MessageBody ==
    << Punct("{"), Str("message"), Punct(":"), Str("no such container: abc"), Punct("}") >>
\* {"code":42,"message":"no such container: abc"}
CodeMessageBody ==
    << Punct("{"), Str("code"), Punct(":"), Num("42"), Punct(","),
       Str("message"), Punct(":"), Str("no such container: abc"), Punct("}") >>
\* {"error":"x"}
NoMessageBody ==
    << Punct("{"), Str("error"), Punct(":"), Str("x"), Punct("}") >>
\* {"message":42}
NumberMessageBody ==
    << Punct("{"), Str("message"), Punct(":"), Num("42"), Punct("}") >>
\* "message"
BareStringBody == << Str("message") >>
\* oops
NotJsonBody == << Raw("oops") >>

\* a byte that no UTF-8 text holds
InvalidUtf8Body == << Raw("\\xFF") >>

\* "message" 42: two JSON values, one after the other
TwoValuesBody == << Str("message"), Num("42") >>

\* oops "message": a JSON value after text that is not JSON
BadThenGoodBody == << Raw("oops"), Str("message") >>

\* 42\n"message"\n: two lines
LinesBody == << Num("42"), Punct("\\n"), Str("message"), Punct("\\n") >>

BodyTexts ==
    { <<>>, LinesBody, NotJsonBody, InvalidUtf8Body, BareStringBody, MessageBody,
      CodeMessageBody, NoMessageBody, NumberMessageBody, TwoValuesBody,
      BadThenGoodBody }

\* the string literals among the tokens, and the strings they denote
StringValue(tok) == tok.v
IsStringToken(tok) == tok.t = "str"

\* bytes is a JSON object: { key : value (, key : value)* } or {}
IsJsonObject(bytes) ==
    /\ Len(bytes) >= 2
    /\ bytes[1] = Punct("{")
    /\ bytes[Len(bytes)] = Punct("}")
    /\ \/ Len(bytes) = 2
       \/ /\ Len(bytes) % 4 = 1
          /\ \A i \in 2..(Len(bytes) - 1) :
               CASE i % 4 = 2 -> IsStringToken(bytes[i])
                 [] i % 4 = 3 -> bytes[i] = Punct(":")
                 [] i % 4 = 0 -> bytes[i].t \in {"str", "num"}
                 [] OTHER     -> bytes[i] = Punct(",")

\* the positions of the values of the fields named key
FieldValues(bytes, key) ==
    { i \in 4..(Len(bytes) - 1) : i % 4 = 0 /\ bytes[i - 2] = Str(key) }

\* get_error_message: serde_json::from_slice::<ErrorResponse>(bytes), where
\* ErrorResponse { message: String }; fields of other names are skipped
GetErrorMessage(bytes) ==
    IF /\ IsJsonObject(bytes)
       /\ Cardinality(FieldValues(bytes, "message")) = 1
       /\ \A i \in FieldValues(bytes, "message") : IsStringToken(bytes[i])
    THEN [ok |-> TRUE,
          message |-> StringValue(bytes[CHOOSE i \in FieldValues(bytes, "message") : TRUE])]
    ELSE [ok |-> FALSE, message |-> ""]

\* the fault arm with the daemon's message ignored
FaultMessageReasonOnly(code, bytes) ==
    IF CanonicalReason(code) # "" THEN CanonicalReason(code) ELSE "unknown error code"

\* the message of a Fault (request.rs 140-145)
FaultMessage(code, bytes) ==
    IF GetErrorMessage(bytes).ok THEN GetErrorMessage(bytes).message
    ELSE IF CanonicalReason(code) # "" THEN CanonicalReason(code)
    ELSE "unknown error code"

Fault(code, message) == [kind |-> "Fault", code |-> code, message |-> message]

\* every way of cutting s into at most n non-empty chunks
RECURSIVE Splits(_, _)
Splits(s, n) ==
    IF s = <<>> THEN { <<>> }
    ELSE IF n = 0 THEN {}
    ELSE UNION { { <<Take(s, k)>> \o rest : rest \in Splits(Drop(s, k), n - 1) }
                 : k \in 1..Len(s) }

\* a response body: the chunks the transport delivers, then either the end
\* of the body or (fails) a transport error in place of the next chunk
Bodies ==
    UNION { { [chunks |-> cs, fails |-> f] :
                cs \in UNION { Splits(Take(t, k), MaxChunks) : k \in 0..Len(t) },
                f \in BOOLEAN }
            : t \in BodyTexts }

\* the daemon operations that end in `.into_response().await?; Ok(())`
UnitOps ==
    { "container_rename", "container_pause", "container_unpause",
      "container_delete", "container_remove", "container_kill",
      "container_start", "network_delete", "network_connect",
      "network_disconnect", "volume_delete" }

\* the finalizers that resolve to one value
FutureOps == { "into_response", "into_body", "into_bytes", "into_string", "into_json" }

\* the finalizers that materialize the body
MaterializeOps == { "into_bytes", "into_string", "into_json" }

\* the finalizers that return a stream of items
StreamOps == { "into_stream", "into_stream_json" }

\* the finalizer that reads the body through a frame codec (LinesCodec)
FrameOps == { "decode" }

Ops == FutureOps \cup StreamOps \cup FrameOps \cup { "upgrade" } \cup UnitOps

Err(error) == [kind |-> "Err", error |-> error]
Ok(value)  == [kind |-> "Ok", value |-> value]

\* String::from_utf8(bytes) succeeds
IsUtf8(bytes) == \A i \in 1..Len(bytes) : bytes[i] # Raw("\\xFF")

\* serde_json::from_slice(bytes) succeeds, for a target type that takes any
\* JSON value
IsJsonText(bytes) ==
    \/ IsJsonObject(bytes)
    \/ Len(bytes) = 1 /\ bytes[1].t \in {"str", "num"}

\* upgrade with every success status taken as an upgrade
IsUpgradedAnySuccess(code) == IsSuccessStatus(code)

\* the match of upgrade(): StatusCode::SWITCHING_PROTOCOLS
IsUpgraded(code) == code = 101

\* materializing that hands back what was read when a chunk fails
MaterializedTruncated(o, bytes, failed) == Ok(bytes)

\* what into_bytes / into_string / into_json make of the outcome of
\* to_bytes(body): the bytes read, or (failed) the error of a chunk
Materialized(o, bytes, failed) ==
    IF failed THEN Err("Hyper")
    ELSE CASE o = "into_bytes"  -> Ok(bytes)
           [] o = "into_string" -> IF IsUtf8(bytes) THEN Ok(bytes) ELSE Err("Encoding")
           [] o = "into_json"   -> IF IsJsonText(bytes) THEN Ok(bytes)
                                   ELSE Err("SerdeJsonError")

\* the line feed that ends a line
LineFeed == Punct("\\n")

\* decode: map_err(|e| io::Error::new(io::ErrorKind::Other, e)), which the
\* reader and the codec hand on (LinesCodecError::Io) and Error::from
\* turns into Error::IO
WrapIo(e) == [kind |-> "Err", error |-> "IO", source |-> e]

\* what decode surfaces for the error e of the byte stream
SurfacedByDecode(e) == WrapIo(e)

\* the position of the first line feed in buf, 0 when it holds none
FirstLineFeed(buf) ==
    LET at == { i \in 1..Len(buf) : buf[i] = LineFeed }
    IN  IF at = {} THEN 0 ELSE CHOOSE i \in at : \A j \in at : i <= j

\* decode: the item made of a line the codec framed: LinesCodec wants
\* UTF-8, and_then wants JSON
LineItem(line) ==
    IF ~IsUtf8(line) THEN WrapIo(Err("InvalidData"))
    ELSE IF IsJsonText(line) THEN Ok(line)
    ELSE Err("SerdeJsonError")

\* into_stream_json with the chunk handed on as it came
StreamItemUndecoded(o, bytes) == Ok(bytes)

\* the item a stream finalizer yields for a chunk of the body
StreamItem(o, bytes) ==
    IF o = "into_stream_json" /\ ~IsJsonText(bytes)
    THEN Err("SerdeJsonError")
    ELSE Ok(bytes)

---------------------------------------------------------------------------
(* Initial states *)

\* no client was constructed
ClientIdle ==
    /\ client = [variant |-> "", address |-> <<>>]
    /\ handles = 0
    /\ reqs = <<>>

\* no List builder was made
ListIdle ==
    /\ future = [tag |-> "None"]
    /\ made = 0
    /\ gets = <<>>
    /\ polled = <<>>
    /\ arrived = [kind |-> "none"]

\* no RequestBuilder is being configured
BuildIdle ==
    /\ builder = [method |-> "GET", headers |-> <<>>, uri_base |-> "",
                  query |-> [tag |-> "None"], body |-> [tag |-> "None"]]
    /\ calls = <<>>
    /\ request = [kind |-> "none"]

\* no socket URI is being made
UdsIdle ==
    /\ socket = <<>>
    /\ endpoint = <<>>
    /\ uri = [by |-> "", text |-> <<>>]
    /\ parsed = [kind |-> "none"]

HttpIdle ==
    /\ op = "none"
    /\ pc = "idle"
    /\ status = 0
    /\ body = [chunks |-> <<>>, fails |-> FALSE]
    /\ taken = 0
    /\ acc = <<>>
    /\ result = [kind |-> "none"]
    /\ sent = 0
    /\ pulls = 0
    /\ items = <<>>

TtyInit ==
    /\ frames \in FrameSeqs
    /\ stream = EncodeFrames(frames)
    /\ pos = 0
    /\ eof = FALSE
    /\ state = WaitingHeader
    /\ src = <<>>
    /\ ret = Returned("none")
    /\ out = <<>>
    /\ headerLog = <<>>
    /\ rdPos = 0
    /\ rdStage = [tag |-> "header"]
    /\ rdOut = <<>>
    /\ rdEnd = ""

InitTty == TtyInit /\ HttpIdle /\ BuildIdle /\ UdsIdle /\ ClientIdle /\ ListIdle

---------------------------------------------------------------------------
(* Actions of SpecTty *)

\* The transport delivers the next n bytes; FramedRead appends them to the
\* buffer of the decoder.
Deliver ==
    /\ ~eof
    /\ \E n \in 1..(Len(stream) - pos) :
         /\ pos' = pos + n
         /\ src' = src \o SubSeq(stream, pos + 1, pos + n)
    /\ UNCHANGED <<frames, stream, eof, state, ret, out, headerLog,
                   rdPos, rdStage, rdOut, rdEnd>>
    /\ UNCHANGED <<httpVars, buildVars, udsVars, clientVars, listVars>>

\* The connection ends, possibly inside a frame: nothing more is delivered.
Close ==
    /\ ~eof
    /\ eof' = TRUE
    /\ UNCHANGED <<frames, stream, pos, state, src, ret, out, headerLog,
                   rdPos, rdStage, rdOut, rdEnd>>
    /\ UNCHANGED <<httpVars, buildVars, udsVars, clientVars, listVars>>

\* TtyDecoder::decode(&mut self, src)
Decode ==
    /\ LET r == DecodeCall(state, src) IN
         /\ state' = r.state
         /\ src' = r.src
         /\ ret' = r.ret
         /\ out' = out \o r.item
         /\ headerLog' = headerLog \o r.log
    /\ UNCHANGED <<frames, stream, pos, eof, rdPos, rdStage, rdOut, rdEnd>>
    /\ UNCHANGED <<httpVars, buildVars, udsVars, clientVars, listVars>>

\* chunks(): read_exact(stream, vec![0; 8]) completes
ChunksReadHeader ==
    /\ rdEnd = ""
    /\ rdStage.tag = "header"
    /\ RdAvail >= HeaderLen
    /\ LET header_bytes == SubSeq(stream, rdPos + 1, rdPos + HeaderLen)
           stream_type  == ChunksStreamType(header_bytes[1])
       IN  /\ rdPos' = rdPos + HeaderLen
           /\ IF stream_type = ""
              THEN /\ rdEnd' = "panic"
                   /\ rdStage' = rdStage
              ELSE /\ rdEnd' = rdEnd
                   /\ rdStage' = [tag |-> "payload",
                                  len |-> ChunksLength(header_bytes),
                                  stream_type |-> stream_type]
    /\ UNCHANGED <<frames, stream, pos, eof, state, src, ret, out, headerLog, rdOut>>
    /\ UNCHANGED <<httpVars, buildVars, udsVars, clientVars, listVars>>

\* chunks(): read_exact(stream, vec![0; data_length]) completes
ChunksReadPayload ==
    /\ rdEnd = ""
    /\ rdStage.tag = "payload"
    /\ RdAvail >= rdStage.len
    /\ rdOut' = Append(rdOut, Chunk(rdStage.stream_type,
                                    SubSeq(stream, rdPos + 1, rdPos + rdStage.len)))
    /\ rdPos' = rdPos + rdStage.len
    /\ rdStage' = [tag |-> "header"]
    /\ UNCHANGED <<frames, stream, pos, eof, state, src, ret, out, headerLog, rdEnd>>
    /\ UNCHANGED <<httpVars, buildVars, udsVars, clientVars, listVars>>

\* chunks(): the pending read_exact meets the end of the stream
\* (UnexpectedEof), which stop_on_err turns into the end of the stream
ChunksEof ==
    /\ rdEnd = ""
    /\ eof
    /\ RdAvail < RdNeed
    /\ rdEnd' = "end"
    /\ rdPos' = pos
    /\ UNCHANGED <<frames, stream, pos, eof, state, src, ret, out, headerLog, rdStage, rdOut>>
    /\ UNCHANGED <<httpVars, buildVars, udsVars, clientVars, listVars>>

NextTty ==
    \/ Deliver
    \/ Close
    \/ Decode
    \/ ChunksReadHeader
    \/ ChunksReadPayload
    \/ ChunksEof

SpecTty == InitTty /\ [][NextTty]_vars

---------------------------------------------------------------------------
(* Properties of the TTY demultiplexer *)

\* the stream a header's first byte names, as the wire protocol defines it
OriginName(b) ==
    CASE b = 0 -> "StdIn"
      [] b = 1 -> "StdOut"
      [] b = 2 -> "StdErr"

\* the chunks the frames of the stream stand for
FrameChunk(f) == Chunk(OriginName(f.origin), f.payload)
ExpectedChunks == [i \in 1..Len(frames) |-> FrameChunk(frames[i])]

AllOriginsValid == \A i \in 1..Len(frames) : frames[i].origin \in {0, 1, 2}

\* a further decode() call would report need-more-input
Quiescent == DecodeCall(state, src).ret.kind = "NeedMore"

\* a step of the decoder: nothing of the transport or of chunks() moves
IsDecodeStep ==
    /\ pos' = pos
    /\ eof' = eof
    /\ <<rdPos, rdStage, rdOut, rdEnd>>' = <<rdPos, rdStage, rdOut, rdEnd>>

\* the length a header declares, most significant byte first
DeclaredLength(buf) ==
    buf[5] * 16777216 + buf[6] * 65536 + buf[7] * 256 + buf[8]

\* C1: frames with origins 0, 1, 2, delivered in any pieces with decode()
\* re-invoked at will, decode without an error to the chunks that were
\* encoded, in order: what has been emitted is always a prefix of them, and
\* all of them once everything is delivered and decode() needs more input.
C1_RoundTrip ==
    AllOriginsValid =>
        /\ ret.kind # "InvalidResponse"
        /\ IsPrefix(out, ExpectedChunks)
        /\ (pos = Len(stream) /\ Quiescent) => out = ExpectedChunks

\* C2: a header whose first byte is not 0, 1 or 2 makes decode() return
\* InvalidResponse without a chunk, and after an InvalidResponse no decode()
\* call removes a byte from the buffer, emits a chunk or changes the state.
C2_InvalidOriginStops ==
    [][ /\ ( /\ IsDecodeStep
             /\ state.tag = "WaitingHeader"
             /\ Len(src) >= 8
             /\ src[1] \notin {0, 1, 2} )
           => (ret'.kind = "InvalidResponse" /\ out' = out)
        /\ (ret.kind = "InvalidResponse" /\ ret.what # "stdin")
           => (IsPrefix(src, src') /\ out' = out /\ state' = state)
      ]_vars

\* C3: a decode() call in WaitingHeader with 8 or more buffered bytes whose
\* first byte is 0, 1 or 2 takes exactly the 8 header bytes and holds
\* WaitingPayload(length, origin), with origin stdin/stdout/stderr for
\* 0/1/2 and length the big-endian value of bytes 4..7 (and goes on to the
\* payload step with exactly that pair when the payload is buffered too).
C3_HeaderParse ==
    [][ ( /\ IsDecodeStep
          /\ state.tag = "WaitingHeader"
          /\ Len(src) >= 8
          /\ src[1] \in {0, 1, 2} )
        => LET len    == DeclaredLength(src)
               origin == OriginName(src[1])
           IN  /\ headerLog' = Append(headerLog, len)
               /\ IF Len(src) - 8 < len
                  THEN /\ state' = WaitingPayload(len, origin)
                       /\ src' = Drop(src, 8)
                       /\ out' = out
                  ELSE /\ state' = WaitingHeader
                       /\ src' = Drop(src, 8 + len)
                       /\ out' = Append(out, Chunk(origin, SubSeq(src, 9, 8 + len)))
      ]_vars

\* the pending read of the named reader cannot be met by what is buffered
DecoderStarved ==
    \/ state.tag = "WaitingHeader" /\ Len(src) < 8
    \/ state.tag = "WaitingPayload" /\ Len(src) < state.len

\* C4: no chunk is shorter than its header declares.  Every chunk of
\* decode() has the length traced for its header; every chunk of chunks()
\* is the whole payload of its frame; and when the stream has ended inside
\* a frame neither reader yields anything more: decode() reports
\* need-more-input, chunks() ends, and neither reports an error.
C4_NoPartialChunk ==
    /\ [](/\ Len(headerLog) >= Len(out)
          /\ \A i \in 1..Len(out) : Len(out[i].data) = headerLog[i]
          /\ Len(rdOut) <= Len(frames)
          /\ \A i \in 1..Len(rdOut) : rdOut[i].data = frames[i].payload
          /\ (rdEnd = "panic" => stream[rdPos - 7] \notin {0, 1, 2}))
    /\ [][ /\ (eof /\ DecoderStarved /\ IsDecodeStep)
              => (ret'.kind = "NeedMore" /\ out' = out)
           /\ (eof /\ rdEnd = "" /\ RdAvail < RdNeed /\ rdEnd' # rdEnd)
              => (rdEnd' = "end" /\ rdOut' = rdOut)
           /\ (rdEnd # "") => (rdOut' = rdOut /\ rdEnd' = rdEnd)
         ]_vars

\* a state where the stream ended inside a payload after one whole frame
C4_Witness ==
    /\ eof
    /\ Len(out) = 1 /\ Len(rdOut) = 1
    /\ state.tag = "WaitingPayload" /\ 0 < Len(src) /\ Len(src) < state.len
    /\ ret.kind = "NeedMore"
    /\ rdEnd = "end"

\* C5: a decode() call in WaitingPayload(length, origin) with at least
\* length buffered bytes takes exactly length bytes, emits one chunk with
\* that origin and those bytes and returns to WaitingHeader; and a fresh
\* decoder given the frame [1,0,0,0,0,0,0,5,'h','e','l','l','o'] yields the
\* chunk {stdout, "hello"}, an empty buffer and WaitingHeader.
C5_PayloadStep ==
    [][ /\ ( /\ IsDecodeStep
             /\ state.tag = "WaitingPayload"
             /\ Len(src) >= state.len )
           => /\ ret'.kind = "Chunk"
              /\ out' = Append(out, Chunk(state.stream_type, SubSeq(src, 1, state.len)))
              /\ src' = SubSeq(src, state.len + 1, Len(src))
              /\ state' = WaitingHeader
        /\ ( /\ IsDecodeStep
             /\ state = WaitingHeader /\ out = <<>>
             /\ src = <<1, 0, 0, 0, 0, 0, 0, 5, 104, 101, 108, 108, 111>> )
           => /\ ret'.kind = "Chunk"
              /\ out' = << Chunk("StdOut", <<104, 101, 108, 108, 111>>) >>
              /\ src' = <<>>
              /\ state' = WaitingHeader
      ]_vars

\* the example frame, decoded
C5_Witness ==
    /\ stream = <<1, 0, 0, 0, 0, 0, 0, 5, 104, 101, 108, 108, 111>>
    /\ ret.kind = "Chunk"
    /\ out = << Chunk("StdOut", <<104, 101, 108, 108, 111>>) >>
    /\ src = <<>>
    /\ state = WaitingHeader

\* C6: a decode() call in WaitingHeader with fewer than 8 buffered bytes
\* reports need-more-input and leaves the buffer and the state as they were.
C6_ShortHeader ==
    [][ ( /\ IsDecodeStep
          /\ state.tag = "WaitingHeader"
          /\ Len(src) < 8 )
        => /\ ret'.kind = "NeedMore"
           /\ src' = src
           /\ state' = state
           /\ out' = out
           /\ headerLog' = headerLog
      ]_vars

\* decode() has reported need-more-input on part of a header
C6_Witness ==
    /\ state.tag = "WaitingHeader"
    /\ Len(src) > 0 /\ Len(src) < 8
    /\ ret.kind = "NeedMore"
    /\ Quiescent

\* C7: while the decoder holds WaitingPayload(length, origin) the pair does
\* not change until that frame's chunk is emitted, and a decode() call with
\* fewer than length buffered bytes reports need-more-input and leaves the
\* buffer and the state as they were.
C7_PayloadPending ==
    [][ /\ (state.tag = "WaitingPayload")
           => \/ state' = state /\ out' = out
              \/ /\ state' = WaitingHeader
                 /\ Len(src) >= state.len
                 /\ out' = Append(out, Chunk(state.stream_type, SubSeq(src, 1, state.len)))
        /\ ( /\ IsDecodeStep
             /\ state.tag = "WaitingPayload"
             /\ Len(src) < state.len )
           => /\ ret'.kind = "NeedMore"
              /\ src' = src
              /\ state' = state
              /\ out' = out
              /\ headerLog' = headerLog
      ]_vars

\* decode() has reported need-more-input on part of a payload
C7_Witness ==
    /\ state.tag = "WaitingPayload"
    /\ Len(src) > 0 /\ Len(src) < state.len
    /\ ret.kind = "NeedMore"

\* C26: a decode() call ends on what is buffered, after at most one
\* header step and then at most one payload step, with need-more-input,
\* one chunk or InvalidResponse; it emits at most one chunk, and what the
\* buffer held beyond the emitted frame stays there.
C26_OneFramePerCall ==
    [][ (IsDecodeStep /\ <<state, src, ret, out, headerLog>>' # <<state, src, ret, out, headerLog>>)
        => /\ ret'.kind \in {"NeedMore", "Chunk", "InvalidResponse"}
           /\ Len(headerLog') <= Len(headerLog) + 1
           /\ state.tag = "WaitingPayload" => headerLog' = headerLog
           /\ IF ret'.kind = "Chunk"
              THEN /\ Len(out') = Len(out) + 1
                   /\ Take(out', Len(out)) = out
                   /\ LET used == (IF state.tag = "WaitingHeader" THEN 8 ELSE 0)
                                      + Len(out'[Len(out')].data)
                      IN  /\ used <= Len(src)
                          /\ src' = SubSeq(src, used + 1, Len(src))
              ELSE /\ out' = out
                   /\ \/ src' = src
                      \/ Len(src) >= 8 /\ src' = SubSeq(src, 9, Len(src))
      ]_vars

\* a decode() call gave the first chunk and left the whole second frame
\* in the buffer
C26_Witness ==
    /\ Len(frames) = 2
    /\ ret.kind = "Chunk"
    /\ Len(out) = 1
    /\ pos = Len(stream)
    /\ src = EncodeFrame(frames[2])
    /\ frames[2].origin = 2

\* where the n-th emitted chunk ends among the delivered bytes when the
\* chunks are laid out from the start as header and payload, -1 when the
\* bytes there are not those of the chunks
RECURSIVE ChunksEnd(_)
ChunksEnd(n) ==
    IF n = 0 THEN 0
    ELSE LET o == ChunksEnd(n - 1)
             len == Len(out[n].data)
         IN  IF /\ o >= 0
                /\ o + 8 + len <= pos
                /\ stream[o + 1] \in {0, 1, 2}
                /\ OriginName(stream[o + 1]) = out[n].stream_type
                /\ DeclaredLength(SubSeq(stream, o + 1, o + 8)) = len
                /\ SubSeq(stream, o + 9, o + 8 + len) = out[n].data
             THEN o + 8 + len
             ELSE -1

\* the delivered bytes are, in order, header and payload of every emitted
\* chunk, the header of the pending frame, and the buffer
Conserved ==
    LET o == ChunksEnd(Len(out))
        c == IF state.tag = "WaitingPayload" THEN o + 8 ELSE o
    IN  /\ o >= 0
        /\ c <= pos
        /\ state.tag = "WaitingPayload" =>
             /\ stream[o + 1] \in {0, 1, 2}
             /\ OriginName(stream[o + 1]) = state.stream_type
             /\ DeclaredLength(SubSeq(stream, o + 1, o + 8)) = state.len
        /\ src = SubSeq(stream, c + 1, pos)

\* C28: the bytes delivered so far are, in order, the header and payload
\* of every emitted chunk, then the header of the pending frame when the
\* state is WaitingPayload, then the buffer: this holds at the start and
\* every step other than a decode() call that returns an error keeps it.
C28_BytesConserved ==
    /\ Conserved
    /\ [][ (Conserved /\ ~(IsDecodeStep /\ ret'.kind = "InvalidResponse"))
           => Conserved' ]_vars

\* one chunk emitted, the next header taken, part of its payload buffered
C28_Witness ==
    /\ Conserved
    /\ Len(out) = 1
    /\ out[1].data # <<>>
    /\ state.tag = "WaitingPayload"
    /\ src # <<>>
    /\ ret.kind = "NeedMore"

\* every frame of the stream names stdin, stdout or stderr
KnownOrigins == \A i \in 1..Len(frames) : frames[i].origin \in {0, 1, 2}

\* C29: the decoder and chunks() agree: on a stream whose headers name
\* stdin, stdout or stderr both give the same chunks once the whole stream
\* is read, and on any other origin byte both end with an error value.
C29_ReadersAgree ==
    /\ rdEnd # "panic"
    /\ (KnownOrigins /\ eof /\ pos = Len(stream) /\ Quiescent /\ rdEnd = "end")
           => out = rdOut

---------------------------------------------------------------------------
(* SpecHttp: one request, from finalizer to terminal outcome *)

TtyIdle ==
    /\ frames = <<>>
    /\ stream = <<>>
    /\ pos = 0
    /\ eof = FALSE
    /\ state = WaitingHeader
    /\ src = <<>>
    /\ ret = Returned("none")
    /\ out = <<>>
    /\ headerLog = <<>>
    /\ rdPos = 0
    /\ rdStage = [tag |-> "header"]
    /\ rdOut = <<>>
    /\ rdEnd = ""

InitHttp ==
    /\ TtyIdle
    /\ ClientIdle
    /\ ListIdle
    /\ BuildIdle
    /\ UdsIdle
    /\ op \in Ops
    /\ pc = "start"
    /\ status = 0
    /\ body = [chunks |-> <<>>, fails |-> FALSE]
    /\ taken = 0
    /\ acc = <<>>
    /\ result = [kind |-> "none"]
    /\ sent = 0
    /\ pulls = 0
    /\ items = <<>>

\* The outcome e of into_body (or of what precedes it) reaches the caller:
\* as the value of the future, or, for into_stream, as the one item of the
\* stream that try_flatten_stream makes of the failed future.
Surface(e) ==
    IF op \in StreamOps \cup FrameOps
    THEN /\ items' = Append(items, IF op \in FrameOps THEN SurfacedByDecode(e) ELSE e)
         /\ pc' = "flat_empty"
         /\ result' = result
    ELSE /\ result' = e
         /\ pc' = "done"
         /\ items' = items

\* send_request is called a second time after the first has failed
SendRequestFailsRetries ==
    /\ pc = "start"
    /\ sent' = sent + 2
    /\ Surface(Err("Hyper"))
    /\ UNCHANGED <<op, status, body, taken, acc, pulls>>
    /\ UNCHANGED <<ttyVars, buildVars, udsVars, clientVars, listVars>>

\* into_request fails (builder.body(..)? on an invalid URI): nothing is sent
IntoRequestFails ==
    /\ pc = "start"
    /\ Surface(Err("Http"))
    /\ UNCHANGED <<op, status, body, taken, acc, sent, pulls>>
    /\ UNCHANGED <<ttyVars, buildVars, udsVars, clientVars, listVars>>

\* into_response: send_request(request).await fails
SendRequestFails ==
    /\ pc = "start"
    /\ sent' = sent + 1
    /\ Surface(Err("Hyper"))
    /\ UNCHANGED <<op, status, body, taken, acc, pulls>>
    /\ UNCHANGED <<ttyVars, buildVars, udsVars, clientVars, listVars>>

\* into_response: send_request(request).await yields a response; the code
\* up to the next await runs with it
SendRequestResponds ==
    /\ pc = "start"
    /\ sent' = sent + 1
    /\ \E code \in Statuses, b \in Bodies :
         /\ status' = code
         /\ body' = b
         /\ CASE op \in UnitOps ->
                 \* .into_response().await?; Ok(())
                 /\ result' = [kind |-> "Ok"]
                 /\ pc' = "done"
              [] op = "into_response" ->
                 /\ result' = [kind |-> "Response", status |-> code, unread |-> b]
                 /\ pc' = "done"
              [] op = "upgrade" ->
                 IF IsUpgraded(code)
                 THEN /\ result' = result
                      /\ pc' = "on_upgrade"
                 ELSE /\ result' = Err("ConnectionNotUpgraded")
                      /\ pc' = "done"
              [] OTHER ->
                 \* into_body: match status
                 IF IsSuccessStatus(code)
                 THEN IF op = "into_body"
                      THEN /\ result' = [kind |-> "Body", unread |-> b]
                           /\ pc' = "done"
                      ELSE /\ result' = result
                           /\ pc' = IF op \in StreamOps THEN "stream"
                                    ELSE IF op \in FrameOps THEN "frames"
                                    ELSE "to_bytes"
                 ELSE /\ result' = result
                      /\ pc' = "concat"
    /\ UNCHANGED <<op, taken, acc, pulls, items>>
    /\ UNCHANGED <<ttyVars, buildVars, udsVars, clientVars, listVars>>

\* concat: one body.next().await of the while-let loop, and on the end of
\* the body the rest of into_body's error arm
ConcatNext ==
    /\ pc = "concat"
    /\ pulls' = pulls + 1
    /\ IF taken < Len(body.chunks)
       THEN /\ taken' = taken + 1
            /\ acc' = acc \o body.chunks[taken + 1]
            /\ UNCHANGED <<pc, result, items>>
       ELSE IF body.fails
       THEN /\ taken' = taken + 1
            /\ Surface(Err("Hyper"))
            /\ UNCHANGED acc
       ELSE /\ Surface(Fault(status, FaultMessage(status, acc)))
            /\ UNCHANGED <<taken, acc>>
    /\ UNCHANGED <<op, status, body, sent>>
    /\ UNCHANGED <<ttyVars, buildVars, udsVars, clientVars, listVars>>

\* into_bytes: one pull of to_bytes(body), and on the end of the body (or a
\* failed chunk) the rest of into_bytes / into_string / into_json
ToBytesNext ==
    /\ pc = "to_bytes"
    /\ pulls' = pulls + 1
    /\ IF taken < Len(body.chunks)
       THEN /\ taken' = taken + 1
            /\ acc' = acc \o body.chunks[taken + 1]
            /\ UNCHANGED <<pc, result>>
       ELSE /\ taken' = IF body.fails THEN taken + 1 ELSE taken
            /\ result' = Materialized(op, acc, body.fails)
            /\ pc' = "done"
            /\ UNCHANGED acc
    /\ UNCHANGED <<op, status, body, sent, items>>
    /\ UNCHANGED <<ttyVars, buildVars, udsVars, clientVars, listVars>>

\* upgrade: hyper_response.into_body().on_upgrade().await?
OnUpgrade ==
    /\ pc = "on_upgrade"
    /\ \/ result' = [kind |-> "Upgraded"]
       \/ result' = Err("Hyper")
    /\ pc' = "done"
    /\ UNCHANGED <<op, status, body, taken, acc, sent, pulls, items>>
    /\ UNCHANGED <<ttyVars, buildVars, udsVars, clientVars, listVars>>

\* into_stream: a poll of the stream while unfold holds the body: one
\* body.next().await.  A chunk or a failed chunk is yielded and the body is
\* kept; the end of the body ends the stream.  A body that has failed
\* reports its end to the next call.
StreamPoll ==
    /\ pc = "stream"
    /\ pulls' = pulls + 1
    /\ IF taken < Len(body.chunks)
       THEN /\ taken' = taken + 1
            /\ items' = Append(items, StreamItem(op, body.chunks[taken + 1]))
            /\ pc' = pc
       ELSE IF body.fails /\ taken = Len(body.chunks)
       THEN /\ taken' = taken + 1
            /\ items' = Append(items, Err("Hyper"))
            /\ pc' = pc
       ELSE /\ pc' = "ended"
            /\ UNCHANGED <<taken, items>>
    /\ UNCHANGED <<op, status, body, acc, result, sent>>
    /\ UNCHANGED <<ttyVars, buildVars, udsVars, clientVars, listVars>>

\* into_stream: a poll after the future of into_body has failed and its
\* error was yielded: the flattened stream is empty and ends
StreamPollEmpty ==
    /\ pc = "flat_empty"
    /\ pc' = "ended"
    /\ UNCHANGED <<op, status, body, taken, acc, result, sent, pulls, items>>
    /\ UNCHANGED <<ttyVars, buildVars, udsVars, clientVars, listVars>>

\* decode: a step of a poll of FramedRead while the reader is open: a line
\* in the buffer is framed and decoded; with no line there the reader is
\* read, which polls the byte stream of into_stream once and buffers the
\* chunk.  A failed chunk is surfaced as an IO error and the end of the
\* body is noted; either way the reader reads no more.
FramesPoll ==
    /\ pc = "frames"
    /\ LET n == FirstLineFeed(acc)
       IN  IF n > 0
           THEN /\ items' = Append(items, LineItem(Take(acc, n - 1)))
                /\ acc' = Drop(acc, n)
                /\ UNCHANGED <<pc, taken, pulls>>
           ELSE /\ pulls' = pulls + 1
                /\ IF taken < Len(body.chunks)
                   THEN /\ taken' = taken + 1
                        /\ acc' = acc \o body.chunks[taken + 1]
                        /\ UNCHANGED <<pc, items>>
                   ELSE IF body.fails
                   THEN /\ taken' = taken + 1
                        /\ items' = Append(items, SurfacedByDecode(Err("Hyper")))
                        /\ pc' = "frames_eof"
                        /\ UNCHANGED acc
                   ELSE /\ pc' = "frames_eof"
                        /\ UNCHANGED <<taken, acc, items>>
    /\ UNCHANGED <<op, status, body, result, sent>>
    /\ UNCHANGED <<ttyVars, buildVars, udsVars, clientVars, listVars>>

\* decode: a poll of FramedRead after the reader has reported its end:
\* decode_eof frames what is left in the buffer as the last line, and with
\* nothing left the stream ends
FramesEof ==
    /\ pc = "frames_eof"
    /\ IF acc # <<>>
       THEN /\ items' = Append(items, LineItem(acc))
            /\ acc' = <<>>
            /\ pc' = pc
       ELSE /\ pc' = "ended"
            /\ UNCHANGED <<acc, items>>
    /\ UNCHANGED <<op, status, body, taken, result, sent, pulls>>
    /\ UNCHANGED <<ttyVars, buildVars, udsVars, clientVars, listVars>>

NextHttp ==
    \/ FramesPoll
    \/ FramesEof
    \/ IntoRequestFails
    \/ SendRequestFails
    \/ SendRequestResponds
    \/ ConcatNext
    \/ ToBytesNext
    \/ OnUpgrade
    \/ StreamPoll
    \/ StreamPollEmpty

SpecHttp == InitHttp /\ [][NextHttp]_vars

---------------------------------------------------------------------------
(* Properties of the finalizers *)

\* the statuses that deliver the body to the caller
SuccessSet == {200, 201, 204, 101}

\* into_body has ended on a response with a status outside the success set
IntoBodyFaultCase ==
    /\ op = "into_body"
    /\ pc = "done"
    /\ status # 0
    /\ status \notin SuccessSet

\* C8 as stated: on every response with a status outside the success set,
\* whatever its body, into_body ends with Fault{code = status, ..} and has
\* by then consumed every chunk of the body.
C8_FaultAlways ==
    IntoBodyFaultCase =>
        /\ result.kind = "Fault"
        /\ result.code = status
        /\ taken >= Len(body.chunks)

\* C8 as the code has it: on a response with a status outside the success
\* set into_body consumes every chunk the body delivers; when the body ends
\* normally it ends with Fault{code = status, ..} built from all the bytes,
\* and when the body's chunk stream fails it ends with that error, which
\* is not a Fault.
C8_FaultAfterDrain ==
    IntoBodyFaultCase =>
        /\ taken >= Len(body.chunks)
        /\ acc = Flatten(body.chunks)
        /\ IF body.fails
           THEN result = Err("Hyper")
           ELSE /\ result.kind = "Fault"
                /\ result.code = status

\* a 404 whose body came in two chunks has ended in a Fault
C8_Witness ==
    /\ IntoBodyFaultCase
    /\ status = 404
    /\ Len(body.chunks) = 2
    /\ taken = 2
    /\ result.kind = "Fault"

\* C9: on a response with status 200, 201, 204 or 101 into_body returns
\* the body handle, with none of its chunks consumed, and no Fault.
C9_SuccessDeliversBody ==
    (op = "into_body" /\ pc = "done" /\ status \in SuccessSet) =>
        /\ result = [kind |-> "Body", unread |-> body]
        /\ taken = 0
        /\ acc = <<>>

\* a 101 whose body holds two chunks was handed to the caller
C9_Witness ==
    /\ op = "into_body"
    /\ pc = "done"
    /\ status = 101
    /\ Len(body.chunks) = 2
    /\ result.kind = "Body"

\* C10: a daemon operation answered with a status outside the success set
\* ends in an error, never in Ok(()).
C10_FaultStatusIsError ==
    (op \in UnitOps /\ pc = "done" /\ status # 0 /\ status \notin SuccessSet) =>
        result.kind \in {"Err", "Fault"}

\* the reason phrases of the registered status codes
ReasonPhrases ==
    [c \in {101, 200, 201, 202, 204, 404, 500} |->
        CASE c = 101 -> "Switching Protocols"
          [] c = 200 -> "OK"
          [] c = 201 -> "Created"
          [] c = 202 -> "Accepted"
          [] c = 204 -> "No Content"
          [] c = 404 -> "Not Found"
          [] c = 500 -> "Internal Server Error"]

\* the drained bodies that are a JSON object with a string `message`
BodiesWithMessage == { MessageBody, CodeMessageBody }

\* C11 as stated: the message of a Fault is the body's `message` string
\* when the drained body is a JSON object with a string message, and the
\* canonical reason phrase of the status for every other body.
C11_MessageOrReason ==
    (IntoBodyFaultCase /\ result.kind = "Fault") =>
        IF acc \in BodiesWithMessage
        THEN result.message = "no such container: abc"
        ELSE /\ status \in DOMAIN ReasonPhrases
             /\ result.message = ReasonPhrases[status]

\* C11 as the code has it: as stated, and for a status that has no
\* canonical reason phrase the message is "unknown error code".
C11_MessageOrReasonOrUnknown ==
    (IntoBodyFaultCase /\ result.kind = "Fault") =>
        IF acc \in BodiesWithMessage
        THEN result.message = "no such container: abc"
        ELSE IF status \in DOMAIN ReasonPhrases
        THEN result.message = ReasonPhrases[status]
        ELSE result.message = "unknown error code"

\* the two examples: 404 with the message body in two chunks, and the
\* fault with an unparseable body
C11_Witness ==
    /\ IntoBodyFaultCase
    /\ status = 404
    /\ Len(body.chunks) = 2
    /\ acc = MessageBody
    /\ result = Fault(404, "no such container: abc")

\* upgrade has ended on a response
UpgradeAnswered ==
    /\ op = "upgrade"
    /\ pc = "done"
    /\ status # 0

\* C12: upgrade hands over an upgraded connection only on a 101; on every
\* other status, the other success statuses included, it ends with
\* ConnectionNotUpgraded, having sent one request and read nothing of the
\* body.
C12_UpgradeOnly101 ==
    UpgradeAnswered =>
        /\ result.kind = "Upgraded" => status = 101
        /\ status # 101 =>
             /\ result = Err("ConnectionNotUpgraded")
             /\ pulls = 0
             /\ sent = 1

\* a 200 with a body of two chunks was refused as not upgraded
C12_Witness ==
    /\ UpgradeAnswered
    /\ status = 200
    /\ Len(body.chunks) = 2
    /\ result = Err("ConnectionNotUpgraded")

\* the finalizer has produced its outcome
Finalized == pc \in {"done", "flat_empty", "ended"}

\* send_request was called and gave no response
DispatchFailed == Finalized /\ sent >= 1 /\ status = 0

\* the outcome of the finalizer: the value of its future, or the first
\* item of its stream
Outcome ==
    IF op \in StreamOps \cup FrameOps
    THEN IF items = <<>> THEN [kind |-> "none"]
         ELSE IF op \in FrameOps /\ items[1].kind = "Err" /\ items[1].error = "IO"
         THEN items[1].source
         ELSE items[1]
    ELSE result

\* C13: a finalizer sends the request at most once, and exactly once
\* unless building the request failed; when the send fails the outcome is
\* that transport error, never a Fault, and nothing of a body is read.
C13_SentOnce ==
    /\ sent <= 1
    /\ Finalized =>
         /\ sent = 0 <=> Outcome = Err("Http")
    /\ DispatchFailed =>
         /\ Outcome = Err("Hyper")
         /\ pulls = 0
         /\ op \in StreamOps \cup FrameOps => Len(items) = 1

\* into_stream was finalized on a failed send and yielded the error
C13_Witness ==
    /\ DispatchFailed
    /\ op = "into_stream"
    /\ pc = "ended"
    /\ sent = 1
    /\ items = << Err("Hyper") >>

\* a materializing finalizer has ended on a response
MaterializeCase ==
    /\ op \in MaterializeOps
    /\ pc = "done"
    /\ status # 0

\* C19: into_bytes, into_string and into_json (and concat for a fault
\* status) end with a value made from all the bytes of the body in order
\* of arrival, or with an error; when a chunk fails they end with that
\* error, never with a value from the bytes read so far.
C19_WholeBodyOrError ==
    MaterializeCase =>
        /\ result.kind \in {"Ok", "Err", "Fault"}
        /\ result.kind = "Ok" =>
             /\ status \in SuccessSet
             /\ ~body.fails
             /\ result.value = Flatten(body.chunks)
        /\ result.kind = "Fault" =>
             /\ ~body.fails
             /\ acc = Flatten(body.chunks)
        /\ body.fails => result = Err("Hyper")

\* into_string on a 200 whose text came in two chunks
C19_Witness ==
    /\ MaterializeCase
    /\ op = "into_string"
    /\ status = 200
    /\ Len(body.chunks) = 2
    /\ body.chunks[1] # <<>>
    /\ body.chunks[2] # <<>>
    /\ result = Ok(MessageBody)

\* the stream of a stream finalizer has yielded the error of a failed
\* chunk, or has reported its end
StreamTerminated ==
    /\ op \in StreamOps
    /\ \/ pc = "ended"
       \/ /\ items # <<>>
          /\ items[Len(items)] = Err("Hyper")

\* C20: once the stream of into_stream has yielded the error of a failed
\* chunk or has ended, no later poll calls the response body for another
\* chunk.
C20_NoPullAfterEnd ==
    [][StreamTerminated => pulls' = pulls]_vars

\* the JSON values a byte stream holds one after the other, each Ok, up
\* to the first text that is no JSON value
RECURSIVE ValueStream(_)
ValueStream(bytes) ==
    IF bytes = <<>> THEN <<>>
    ELSE IF bytes[1].t \in {"str", "num"}
    THEN << Ok(<<bytes[1]>>) >> \o ValueStream(Drop(bytes, 1))
    ELSE LET closing == { i \in 1..Len(bytes) : bytes[i] = Punct("}") }
             e == IF closing = {} THEN 0
                  ELSE CHOOSE i \in closing : \A j \in closing : i <= j
         IN  IF e > 0 /\ IsJsonObject(Take(bytes, e))
             THEN << Ok(Take(bytes, e)) >> \o ValueStream(Drop(bytes, e))
             ELSE << Err("SerdeJsonError") >>

\* every part of the byte stream is a JSON value
IsValueStream(bytes) ==
    \A i \in 1..Len(ValueStream(bytes)) : ValueStream(bytes)[i].kind = "Ok"

\* into_stream_json has streamed a whole body of JSON values to its end
JsonStreamDone ==
    /\ op = "into_stream_json"
    /\ pc = "ended"
    /\ status \in SuccessSet
    /\ ~body.fails
    /\ IsValueStream(Flatten(body.chunks))

\* C21: into_stream_json yields the JSON values of the body's bytes, one
\* item a value, however the transport cut the bytes into chunks.
C21_ValuesWhateverTheChunks ==
    JsonStreamDone => items = ValueStream(Flatten(body.chunks))

\* into_stream_json is streaming, or has streamed, a body
JsonStreaming ==
    /\ op = "into_stream_json"
    /\ pc \in {"stream", "ended"}
    /\ status \in SuccessSet

ByteStream == op = "into_stream" /\ pc # "start"

\* C30: the stream of into_stream yields one item, an error, and ends
\* when the status is a fault or the send failed, and never a chunk of the
\* body; on a success status it yields the chunks of the body in the order
\* of delivery and ends when the body ends.
C30_ErrorOnceOrChunks ==
    ByteStream =>
        IF status \in SuccessSet
        THEN /\ \A i \in 1..Len(body.chunks) :
                  i <= Len(items) => items[i] = Ok(body.chunks[i])
             /\ Len(items) >= IF taken <= Len(body.chunks) THEN taken ELSE Len(body.chunks)
             /\ (pc = "ended" /\ ~body.fails) => Len(items) = Len(body.chunks)
             /\ pc \in {"stream", "ended"}
        ELSE /\ Len(items) <= 1
             /\ \A i \in 1..Len(items) : items[i].kind \in {"Err", "Fault"}
             /\ Finalized => Len(items) = 1
             /\ pc \in {"concat", "flat_empty", "ended"}

\* a 404 whose body came in two chunks: the Fault, then the end
C30_Witness ==
    /\ ByteStream
    /\ pc = "ended"
    /\ status = 404
    /\ Len(body.chunks) = 2
    /\ items = << Fault(404, "no such container: abc") >>

\* decode has run on a response with a fault status whose body was read
\* to its end
DecodeFaultCase ==
    /\ op = "decode"
    /\ pc \in {"flat_empty", "ended"}
    /\ status # 0
    /\ status \notin SuccessSet
    /\ ~body.fails

\* C23: on a fault status the error item of the stream of decode(codec)
\* is Fault{code, message} for that status, as into_body makes it, and not
\* an error of another kind.
C23_DecodeSurfacesFault ==
    DecodeFaultCase =>
        /\ Len(items) = 1
        /\ items[1].kind = "Fault"
        /\ items[1].code = status

---------------------------------------------------------------------------
(* SpecBuild: configuring a RequestBuilder and finalizing it *)

\* the largest number of builder calls made before into_request
MaxCalls == 3

Methods == { "GET", "POST" }

HeaderNames == { "content-type", "x-registry-auth", "connection" }

\* "text/plain"
TextPlain == <<116, 101, 120, 116, 47, 112, 108, 97, 105, 110>>

\* "a\nb": a line feed is not header content
LineFeedValue == <<97, 10, 98>>

\* mime::APPLICATION_JSON: "application/json"
ApplicationJson ==
    <<97, 112, 112, 108, 105, 99, 97, 116, 105, 111, 110, 47, 106, 115, 111, 110>>

\* "application/x-tar"
ApplicationXTar ==
    <<97, 112, 112, 108, 105, 99, 97, 116, 105, 111, 110, 47, 120, 45, 116, 97, 114>>

\* "Upgrade"
UpgradeValue == <<85, 112, 103, 114, 97, 100, 101>>

\* "tcp"
TcpValue == <<116, 99, 112>>

HeaderValues == { TextPlain, LineFeedValue }

\* HeaderValue::from_str accepts visible bytes, space and tab
IsHeaderValue(v) ==
    \A i \in 1..Len(v) : v[i] = 9 \/ (v[i] >= 32 /\ v[i] # 127)

\* the endpoints a builder is made for, already joined to the transport
UriBases == { "tcp://host/info", "tcp://host/a b" }

\* Builder::uri accepts the text
IsUri(text) == text # "tcp://host/a b"

QueryStrings == { "all=true" }

\* the values given to json_body
JsonValues == { Str("busybox"), Num(1) }

\* the archives given to tar_body
TarDatas == { << Raw("tar-a") >>, << Raw("tar-b") >> }

\* serde_json::to_vec
ToVec(value) == << value >>

None == [tag |-> "None"]

\* RequestBuilder::new
New(uri_base) ==
    [method |-> "GET", headers |-> <<>>, uri_base |-> uri_base,
     query |-> None, body |-> None]

\* HeaderMap::append
AppendHeader(headers, name, value) ==
    Append(headers, [name |-> name, value |-> value])

Method(b, m) == [b EXCEPT !.method = m]

Header(b, key, value) ==
    [b EXCEPT !.headers = AppendHeader(b.headers, key, value)]

Query(b, q) == [b EXCEPT !.query = [tag |-> "Some", string |-> q]]

JsonBody(b, value) ==
    [b EXCEPT !.body = [tag |-> "Json", data |-> ToVec(value)]]

\* tar_body that leaves a body attached earlier in place
TarBodyKeepsEarlier(b, data) ==
    IF b.body = None
    THEN [b EXCEPT !.body = [tag |-> "Tar", data |-> data]]
    ELSE b

TarBody(b, data) ==
    [b EXCEPT !.body = [tag |-> "Tar", data |-> data]]

\* BodyType::mime
Mime(tag) == IF tag = "Json" THEN ApplicationJson ELSE ApplicationXTar

\* into_request
IntoRequest(b) ==
    LET u == IF b.query.tag = "Some"
             THEN <<b.uri_base, "?", b.query.string>>
             ELSE <<b.uri_base>>
        h == IF b.body = None
             THEN b.headers
             ELSE AppendHeader(b.headers, "content-type", Mime(b.body.tag))
        d == IF b.body = None THEN <<>> ELSE b.body.data
    IN  IF IsUri(b.uri_base)
        THEN [kind |-> "Request", method |-> b.method, uri |-> u,
              headers |-> h, body |-> d]
        ELSE Err("Http")

\* upgrade that sets its two headers in place of those configured
UpgradeHeadersAlone(b) ==
    [b EXCEPT !.headers = << [name |-> "connection", value |-> UpgradeValue],
                             [name |-> "upgrade", value |-> TcpValue] >>]

\* upgrade: the two header() calls before into_response
UpgradeHeaders(b) ==
    Header(Header(b, "connection", UpgradeValue), "upgrade", TcpValue)

InitBuild ==
    /\ TtyIdle
    /\ ClientIdle
    /\ ListIdle
    /\ HttpIdle
    /\ UdsIdle
    /\ \E base \in UriBases : builder = New(base)
    /\ calls = <<>>
    /\ request = [kind |-> "none"]

Configuring == request.kind = "none" /\ Len(calls) < MaxCalls

CallMethod ==
    /\ Configuring
    /\ \E m \in Methods :
         /\ builder' = Method(builder, m)
         /\ calls' = Append(calls, [fn |-> "method", method |-> m])
    /\ UNCHANGED <<request, ttyVars, httpVars, udsVars, clientVars, listVars>>

\* header() unwraps the conversion of the value: a value that is not
\* header content panics there
CallHeader ==
    /\ Configuring
    /\ \E k \in HeaderNames, v \in HeaderValues :
         /\ calls' = Append(calls, [fn |-> "header", name |-> k, value |-> v])
         /\ IF IsHeaderValue(v)
            THEN /\ builder' = Header(builder, k, v)
                 /\ request' = request
            ELSE /\ request' = [kind |-> "Panic"]
                 /\ builder' = builder
    /\ UNCHANGED <<ttyVars, httpVars, udsVars, clientVars, listVars>>

CallQuery ==
    /\ Configuring
    /\ \E q \in QueryStrings :
         /\ builder' = Query(builder, q)
         /\ calls' = Append(calls, [fn |-> "query", string |-> q])
    /\ UNCHANGED <<request, ttyVars, httpVars, udsVars, clientVars, listVars>>

CallJsonBody ==
    /\ Configuring
    /\ \E v \in JsonValues :
         /\ builder' = JsonBody(builder, v)
         /\ calls' = Append(calls, [fn |-> "json_body", value |-> v])
    /\ UNCHANGED <<request, ttyVars, httpVars, udsVars, clientVars, listVars>>

CallTarBody ==
    /\ Configuring
    /\ \E d \in TarDatas :
         /\ builder' = TarBody(builder, d)
         /\ calls' = Append(calls, [fn |-> "tar_body", data |-> d])
    /\ UNCHANGED <<request, ttyVars, httpVars, udsVars, clientVars, listVars>>

CallIntoRequest ==
    /\ request.kind = "none"
    /\ request' = IntoRequest(builder)
    /\ UNCHANGED <<builder, calls, ttyVars, httpVars, udsVars, clientVars, listVars>>

\* upgrade: the request it dispatches
CallUpgrade ==
    /\ request.kind = "none"
    /\ request' = IntoRequest(UpgradeHeaders(builder))
    /\ calls' = Append(calls, [fn |-> "upgrade"])
    /\ UNCHANGED <<builder, ttyVars, httpVars, udsVars, clientVars, listVars>>

NextBuild ==
    \/ CallUpgrade
    \/ CallMethod
    \/ CallHeader
    \/ CallQuery
    \/ CallJsonBody
    \/ CallTarBody
    \/ CallIntoRequest

SpecBuild == InitBuild /\ [][NextBuild]_vars

---------------------------------------------------------------------------
(* Claims about the builder *)

\* the values a header list holds under a name, in order
ValuesOf(headers, name) ==
    LET Named(h) == h.name = name
        sel == SelectSeq(headers, Named)
    IN  [i \in 1..Len(sel) |-> sel[i].value]

\* C14: a finalized request that carries a body has one body tag, Json or
\* Tar, and its content-type header is the MIME type of that tag and
\* nothing else, whatever builder calls came before.
C14_ContentTypeIsMime ==
    (request.kind = "Request" /\ builder.body # None) =>
        /\ builder.body.tag \in {"Json", "Tar"}
        /\ ValuesOf(request.headers, "content-type") = << Mime(builder.body.tag) >>

IsBodyCall(c) == c.fn \in {"json_body", "tar_body"}

IsHeaderCall(c) == c.fn = "header"

\* the body calls made, in order
BodyCalls == SelectSeq(calls, IsBodyCall)

\* the headers the header() calls set, in order
HeadersSet ==
    LET sel == SelectSeq(calls, IsHeaderCall)
    IN  [i \in 1..Len(sel) |-> [name |-> sel[i].name, value |-> sel[i].value]]

\* the headers the finalizer sets itself: those of upgrade, or none
FinalizerHeaders ==
    IF calls # <<>> /\ calls[Len(calls)].fn = "upgrade"
    THEN << [name |-> "connection", value |-> UpgradeValue],
            [name |-> "upgrade", value |-> TcpValue] >>
    ELSE <<>>

\* C15: after any sequence of json_body and tar_body calls the finalized
\* request carries the bytes of the last call, and its headers are those
\* set by header() followed by the content-type of the last call alone.
C15_LastBodyWins ==
    (request.kind = "Request" /\ BodyCalls # <<>>) =>
        LET last == BodyCalls[Len(BodyCalls)]
        IN  /\ request.body = IF last.fn = "json_body"
                              THEN << last.value >>
                              ELSE last.data
            /\ request.headers =
                 Append(HeadersSet \o FinalizerHeaders,
                        [name |-> "content-type",
                         value |-> IF last.fn = "json_body"
                                   THEN ApplicationJson
                                   ELSE ApplicationXTar])

\* a JSON body replaced by an archive, then finalized
C15_Witness ==
    /\ request.kind = "Request"
    /\ Len(BodyCalls) = 2
    /\ BodyCalls[1].fn = "json_body"
    /\ BodyCalls[2].fn = "tar_body"
    /\ request.body = << Raw("tar-b") >>

\* a header() call was given a value that is not header content
InvalidHeaderGiven ==
    \E i \in 1..Len(calls) :
        /\ calls[i].fn = "header"
        /\ ~IsHeaderValue(calls[i].value)

\* C18: a builder given a header value that is not header content does
\* not abort at the header() call; it ends, at finalization, in an Http
\* (malformed request) error and never in a request.
C18_InvalidHeaderIsError ==
    InvalidHeaderGiven =>
        \/ request.kind = "none"
        \/ request = Err("Http")

\* upgrade has built the request it dispatches
UpgradeDispatched ==
    /\ request.kind = "Request"
    /\ calls # <<>>
    /\ calls[Len(calls)].fn = "upgrade"

\* C25: the request upgrade dispatches has the method, URI with query and
\* body the builder was given, and under every header name the values the
\* builder was given, with `Upgrade` added under connection and `tcp`
\* under upgrade.
C25_UpgradeAddsHeaders ==
    UpgradeDispatched =>
        LET plain == IntoRequest(builder)
        IN  /\ request.method = plain.method
            /\ request.uri = plain.uri
            /\ request.body = plain.body
            /\ ValuesOf(request.headers, "connection") =
                 Append(ValuesOf(plain.headers, "connection"), UpgradeValue)
            /\ ValuesOf(request.headers, "upgrade") =
                 Append(ValuesOf(plain.headers, "upgrade"), TcpValue)
            /\ \A n \in {"content-type", "x-registry-auth"} :
                 ValuesOf(request.headers, n) = ValuesOf(plain.headers, n)

\* upgrade on a POST with a connection header, a query and a JSON body
C25_Witness ==
    /\ UpgradeDispatched
    /\ Len(calls) = 4
    /\ calls[1].fn = "header"
    /\ calls[1].name = "connection"
    /\ calls[2].fn = "query"
    /\ calls[3].fn = "json_body"
    /\ Len(request.uri) = 3
    /\ request.body # <<>>
    /\ Len(ValuesOf(request.headers, "connection")) = 2

---------------------------------------------------------------------------
(* SpecUds: the URIs of the Unix-domain socket transport *)

\* "/var/run/x.sock"
VarRunSock ==
    <<47, 118, 97, 114, 47, 114, 117, 110, 47, 120, 46, 115, 111, 99,
    107>>

\* "/x"
ShortSock ==
    <<47, 120>>

\* "/" and the two bytes of U+00E9
AccentSock ==
    <<47, 195, 169>>

\* "/" and the byte 0xFF, which no UTF-8 text holds
NonUtf8Sock ==
    <<47, 255>>

\* "/info"
InfoEndpoint ==
    <<47, 105, 110, 102, 111>>

\* "/v"
VersionEndpoint ==
    <<47, 118>>

\* "/containers/json"
ContainersEndpoint ==
    <<47, 99, 111, 110, 116, 97, 105, 110, 101, 114, 115, 47, 106, 115,
    111, 110>>

\* "http://2f78:0/info": the scheme is not unix
HttpSchemeUri ==
    <<104, 116, 116, 112, 58, 47, 47, 50, 102, 55, 56, 58, 48, 47, 105,
    110, 102, 111>>

\* "/info": no scheme and no host
PathOnlyUri ==
    <<47, 105, 110, 102, 111>>

\* "unix://zz:0/info": the host is not hexadecimal
NonHexHostUri ==
    <<117, 110, 105, 120, 58, 47, 47, 122, 122, 58, 48, 47, 105, 110, 102,
    111>>

\* "unix://2f7:0/info": the host has an odd number of digits
OddHexHostUri ==
    <<117, 110, 105, 120, 58, 47, 47, 50, 102, 55, 58, 48, 47, 105, 110,
    102, 111>>

\* "unix://2F78:0/info": the host is "/x" in upper-case hexadecimal
UpperHexHostUri ==
    <<117, 110, 105, 120, 58, 47, 47, 50, 70, 55, 56, 58, 48, 47, 105,
    110, 102, 111>>

\* "unix"
UnixScheme ==
    <<117, 110, 105, 120>>

\* "://"
SchemeSeparator ==
    <<58, 47, 47>>

\* ":0"
PortZero ==
    <<58, 48>>

\* U+FFFD in UTF-8
ReplacementCharacter ==
    <<239, 191, 189>>

SocketPaths == { VarRunSock, ShortSock, AccentSock, NonUtf8Sock }

Endpoints == { InfoEndpoint, VersionEndpoint, ContainersEndpoint }

\* URIs that unix_uri did not make
ForeignUris ==
    { HttpSchemeUri, PathOnlyUri, NonHexHostUri, OddHexHostUri, UpperHexHostUri }

IsContinuation(b) == b >= 128 /\ b <= 191

\* how many continuation bytes the lead byte b announces, -1 when b
\* cannot begin a character
Utf8Width(b) ==
    IF b < 128 THEN 0
    ELSE IF b >= 194 /\ b <= 223 THEN 1
    ELSE IF b >= 224 /\ b <= 239 THEN 2
    ELSE IF b >= 240 /\ b <= 244 THEN 3
    ELSE -1

\* the byte at position i (counted from 2) may follow the lead byte b
FollowsLead(b, i, c) ==
    IF i > 2 THEN IsContinuation(c)
    ELSE CASE b = 224 -> c >= 160 /\ c <= 191
           [] b = 237 -> c >= 128 /\ c <= 159
           [] b = 240 -> c >= 144 /\ c <= 191
           [] b = 244 -> c >= 128 /\ c <= 143
           [] OTHER   -> IsContinuation(c)

\* the bytes at the head of s that follow its lead byte rightly, at most w
RECURSIVE Followers(_, _, _)
Followers(s, w, n) ==
    IF n < w /\ Len(s) >= n + 2 /\ FollowsLead(s[1], n + 2, s[n + 2])
    THEN Followers(s, w, n + 1)
    ELSE n

\* to_string_lossy / String::from_utf8_lossy: the text with every maximal
\* ill-formed part replaced by U+FFFD
RECURSIVE Utf8Lossy(_)
Utf8Lossy(s) ==
    IF s = <<>> THEN <<>>
    ELSE LET w == Utf8Width(s[1])
             n == IF w < 0 THEN 0 ELSE Followers(s, w, 0)
         IN  IF w >= 0 /\ n = w
             THEN Take(s, w + 1) \o Utf8Lossy(Drop(s, w + 1))
             ELSE ReplacementCharacter \o Utf8Lossy(Drop(s, n + 1))

\* the character of a hexadecimal digit, lower case
HexDigit(n) == IF n < 10 THEN 48 + n ELSE 87 + n

\* hex::encode
RECURSIVE HexEncode(_)
HexEncode(s) ==
    IF s = <<>> THEN <<>>
    ELSE <<HexDigit(s[1] \div 16), HexDigit(s[1] % 16)>> \o HexEncode(Drop(s, 1))

\* the value of a hexadecimal digit, -1 for any other character
HexValue(c) ==
    IF c >= 48 /\ c <= 57 THEN c - 48
    ELSE IF c >= 97 /\ c <= 102 THEN c - 87
    ELSE IF c >= 65 /\ c <= 70 THEN c - 55
    ELSE -1

IsHex(s) ==
    /\ Len(s) % 2 = 0
    /\ \A i \in 1..Len(s) : HexValue(s[i]) >= 0

\* Vec::from_hex of a text that IsHex
RECURSIVE FromHex(_)
FromHex(s) ==
    IF s = <<>> THEN <<>>
    ELSE <<16 * HexValue(s[1]) + HexValue(s[2])>> \o FromHex(Drop(s, 2))

\* the first position at which t occurs in s, 0 when it does not
FindSeq(s, t) ==
    LET at == { i \in 1..(Len(s) - Len(t) + 1) : SubSeq(s, i, i + Len(t) - 1) = t }
    IN  IF at = {} THEN 0 ELSE CHOOSE i \in at : \A j \in at : i <= j

\* Uri::scheme_str: the text before "://", <<>> when there is none
SchemeStr(text) ==
    LET i == FindSeq(text, SchemeSeparator)
    IN  IF i = 0 THEN <<>> ELSE Take(text, i - 1)

\* the authority of a URI: what follows "://" up to the next "/"
Authority(text) ==
    LET i == FindSeq(text, SchemeSeparator)
        rest == Drop(text, i + Len(SchemeSeparator) - 1)
        j == FindSeq(rest, <<47>>)
    IN  IF i = 0 THEN <<>>
        ELSE IF j = 0 THEN rest ELSE Take(rest, j - 1)

\* Uri::host: the authority up to its port; absent with the authority
Host(text) ==
    LET a == Authority(text)
        j == FindSeq(a, <<58>>)
    IN  IF FindSeq(text, SchemeSeparator) = 0 THEN [tag |-> "None"]
        ELSE [tag |-> "Some", host |-> IF j = 0 THEN a ELSE Take(a, j - 1)]

\* Uds::uri and Transport::uri: the lossy text of the path between
\* "unix://" and ":0"
UdsUriRaw(path, e) ==
    UnixScheme \o SchemeSeparator \o Utf8Lossy(path) \o PortZero \o e

\* unix_uri
UnixUri(path, e) ==
    UnixScheme \o SchemeSeparator \o HexEncode(Utf8Lossy(path)) \o PortZero \o e

InvalidInput == [kind |-> "Err", error |-> "InvalidInput"]

\* parse_socket_path
ParseSocketPath(text) ==
    IF SchemeStr(text) # UnixScheme THEN InvalidInput
    ELSE IF Host(text).tag = "Some"
    THEN IF IsHex(Host(text).host)
         THEN [kind |-> "Ok", path |-> Utf8Lossy(FromHex(Host(text).host))]
         ELSE InvalidInput
    ELSE InvalidInput

InitUds ==
    /\ TtyIdle
    /\ ClientIdle
    /\ ListIdle
    /\ HttpIdle
    /\ BuildIdle
    /\ socket \in SocketPaths
    /\ endpoint \in Endpoints
    /\ uri = [by |-> "", text |-> <<>>]
    /\ parsed = [kind |-> "none"]

\* the transport makes the address of a request
CallUdsUri ==
    /\ uri' = [by |-> "Uds::uri", text |-> UdsUriRaw(socket, endpoint)]
    /\ parsed' = [kind |-> "none"]
    /\ UNCHANGED <<socket, endpoint, ttyVars, httpVars, buildVars, clientVars, listVars>>

CallUnixUri ==
    /\ uri' = [by |-> "unix_uri", text |-> UnixUri(socket, endpoint)]
    /\ parsed' = [kind |-> "none"]
    /\ UNCHANGED <<socket, endpoint, ttyVars, httpVars, buildVars, clientVars, listVars>>

\* the connector is called with a URI made elsewhere
ForeignUri ==
    /\ \E text \in ForeignUris : uri' = [by |-> "caller", text |-> text]
    /\ parsed' = [kind |-> "none"]
    /\ UNCHANGED <<socket, endpoint, ttyVars, httpVars, buildVars, clientVars, listVars>>

\* UnixConnector::call: parse_socket_path(req)
CallParseSocketPath ==
    /\ uri.by \in {"unix_uri", "caller"}
    /\ parsed' = ParseSocketPath(uri.text)
    /\ UNCHANGED <<socket, endpoint, uri, ttyVars, httpVars, buildVars, clientVars, listVars>>

NextUds ==
    \/ CallUdsUri
    \/ CallUnixUri
    \/ ForeignUri
    \/ CallParseSocketPath

SpecUds == InitUds /\ [][NextUds]_vars

---------------------------------------------------------------------------
(* Claims about the socket URIs *)

\* C16: the address the Unix-domain transport makes for socket path p and
\* endpoint e is "unix://", the hexadecimal encoding of the bytes of p,
\* ":0" and e.
C16_AddressIsHex ==
    uri.by = "Uds::uri" =>
        uri.text = UnixScheme \o SchemeSeparator \o HexEncode(socket)
                       \o PortZero \o endpoint

\* C17: parse_socket_path gives back the path unix_uri was given, and
\* gives InvalidInput, never a path, for a URI whose scheme is not unix,
\* whose host is absent or whose host is not hexadecimal.
C17_RoundTrip ==
    /\ (uri.by = "unix_uri" /\ parsed.kind # "none") =>
           parsed = [kind |-> "Ok", path |-> socket]
    /\ (parsed.kind # "none"
          /\ \/ SchemeStr(uri.text) # UnixScheme
             \/ Host(uri.text).tag = "None"
             \/ ~IsHex(Host(uri.text).host)) =>
           parsed = InvalidInput

---------------------------------------------------------------------------
(* SpecClient: requests issued concurrently through handles on one client *)

\* the largest number of requests in flight or done
MaxRequests == 2

\* the largest number of handles that hold the client
MaxHandles == 2

\* "http://h:80"
TcpHost ==
    <<104, 116, 116, 112, 58, 47, 47, 104, 58, 56, 48>>

\* "https://h:443"
TlsHost ==
    <<104, 116, 116, 112, 115, 58, 47, 47, 104, 58, 52, 52, 51>>

\* HttpClient::tcp / tls / unix
Clients ==
    { [variant |-> "Tcp", address |-> TcpHost],
      [variant |-> "Tls", address |-> TlsHost],
      [variant |-> "Uds", address |-> VarRunSock] }

\* a uri that names the default socket whatever the client is
TransportUriDefaultSocket(c, e) == UdsUriRaw(VarRunSock, e)

\* HttpClient::uri: self.transport().uri(endpoint)
TransportUri(c, e) ==
    IF c.variant = "Uds" THEN UdsUriRaw(c.address, e) ELSE c.address \o e

InitClient ==
    /\ TtyIdle
    /\ HttpIdle
    /\ BuildIdle
    /\ UdsIdle
    /\ ListIdle
    /\ client \in Clients
    /\ handles = 1
    /\ reqs = <<>>

\* Docker::images / containers / networks / volumes, Docker::clone:
\* Arc::clone of the client
CloneHandle ==
    /\ handles >= 1
    /\ handles < MaxHandles
    /\ handles' = handles + 1
    /\ UNCHANGED <<client, reqs, ttyVars, httpVars, buildVars, udsVars, listVars>>

\* HttpClient::request / get / post / put / delete through a handle:
\* RequestBuilder::new reads the uri of the client
NewRequest ==
    /\ handles >= 1
    /\ Len(reqs) < MaxRequests
    /\ \E h \in 1..handles, e \in Endpoints :
         reqs' = Append(reqs, [via |-> h, endpoint |-> e,
                               uri_base |-> TransportUri(client, e),
                               pc |-> "built"])
    /\ UNCHANGED <<client, handles, ttyVars, httpVars, buildVars, udsVars, listVars>>

\* HttpClient::send_request: self.transport().send_request(req)
ClientSendRequest ==
    /\ \E i \in 1..Len(reqs) :
         /\ reqs[i].pc = "built"
         /\ reqs' = [reqs EXCEPT ![i].pc = "sent"]
    /\ UNCHANGED <<client, handles, ttyVars, httpVars, buildVars, udsVars, listVars>>

\* the ResponseFuture of a request resolves
ClientResponse ==
    /\ \E i \in 1..Len(reqs) :
         /\ reqs[i].pc = "sent"
         /\ reqs' = [reqs EXCEPT ![i].pc = "done"]
    /\ UNCHANGED <<client, handles, ttyVars, httpVars, buildVars, udsVars, listVars>>

NextClient ==
    \/ CloneHandle
    \/ NewRequest
    \/ ClientSendRequest
    \/ ClientResponse

SpecClient == InitClient /\ [][NextClient]_vars

\* the address a client stands for: the host, or "unix://", the socket
\* path and ":0"
AddressOf(c) ==
    IF c.variant = "Uds"
    THEN UnixScheme \o SchemeSeparator \o c.address \o PortZero
    ELSE c.address

\* C24: whatever the interleaving of the requests issued through the
\* handles on one client, no step changes the variant or the address of
\* the client, and the address of every request is that of the client
\* followed by the request's endpoint.
C24_IdentityFixed ==
    [][ /\ client' = client
        /\ \A i \in 1..Len(reqs') :
             reqs'[i].uri_base = AddressOf(client) \o reqs'[i].endpoint ]_vars

\* two requests in flight at once, issued through two handles on a
\* Unix-domain client, each for its own endpoint
C24_Witness ==
    /\ client.variant = "Uds"
    /\ Len(reqs) = 2
    /\ reqs[1].pc = "sent"
    /\ reqs[2].pc = "sent"
    /\ reqs[1].via # reqs[2].via
    /\ reqs[1].endpoint # reqs[2].endpoint

---------------------------------------------------------------------------
(* SpecList: the container List builder polled as a future *)

\* the largest number of times the builder is polled
MaxPolls == 3

\* the responses the daemon gives to the request of the builder
ListBodies == { b \in Bodies : Len(b.chunks) <= 1 }

Pending == [kind |-> "Pending"]
Ready(value) == [kind |-> "Ready", value |-> value]

\* a future of an async fn polled after it has resolved panics
Panicked == [kind |-> "panic"]

\* self.http_client.get("/containers/json").query(&self.query): the
\* request the inner future sends, Query::default() serializing to ""
ContainersJson == [method |-> "GET", endpoint |-> "/containers/json", query |-> ""]

\* Box::pin(... .into_json()): the inner future, not yet polled
InnerFuture == [tag |-> "Some", pc |-> "start"]

\* what into_json resolves to for a response
IntoJson(code, b) ==
    IF IsSuccessStatus(code)
    THEN Materialized("into_json", Flatten(b.chunks), b.fails)
    ELSE IF b.fails THEN Err("Hyper")
    ELSE Fault(code, FaultMessage(code, Flatten(b.chunks)))

\* one poll of the inner future: into_request and send_request on the
\* first one, then the response and its body as far as they have arrived
InnerPoll(fut, arr, uriOk) ==
    CASE fut.pc = "start" ->
           IF uriOk
           THEN [future |-> [fut EXCEPT !.pc = "send"], ret |-> Pending,
                 sends |-> << ContainersJson >>]
           ELSE [future |-> [fut EXCEPT !.pc = "done"], ret |-> Ready(Err("Http")),
                 sends |-> <<>>]
      [] fut.pc \in {"send", "body"} ->
           CASE arr.kind = "none" ->
                  [future |-> fut, ret |-> Pending, sends |-> <<>>]
             [] arr.kind = "failed" ->
                  [future |-> [fut EXCEPT !.pc = "done"], ret |-> Ready(Err("Hyper")),
                   sends |-> <<>>]
             [] arr.kind = "response" /\ ~arr.whole ->
                  [future |-> [fut EXCEPT !.pc = "body"], ret |-> Pending,
                   sends |-> <<>>]
             [] OTHER ->
                  [future |-> [fut EXCEPT !.pc = "done"],
                   ret |-> Ready(IntoJson(arr.status, arr.body)), sends |-> <<>>]
      [] OTHER ->
           [future |-> fut, ret |-> Panicked, sends |-> <<>>]

\* poll that makes a new inner future every time
InnerOfAlways(fut) == [future |-> InnerFuture, made |-> 1]

\* Builder::poll, `if self.future.is_none() { self.future = Some(..) }`:
\* the inner future the poll is forwarded to
InnerOf(fut) ==
    IF fut.tag = "None" THEN [future |-> InnerFuture, made |-> 1]
    ELSE [future |-> fut, made |-> 0]

InitList ==
    /\ TtyIdle
    /\ HttpIdle
    /\ BuildIdle
    /\ UdsIdle
    /\ ClientIdle
    /\ ListIdle

\* <Builder as Future>::poll
ListPoll ==
    /\ Len(polled) < MaxPolls
    /\ IF polled = <<>> THEN TRUE ELSE polled[Len(polled)] # Panicked
    /\ \E uriOk \in BOOLEAN :
         LET inner == InnerOf(future)
             r == InnerPoll(inner.future, arrived, uriOk)
         IN  /\ future' = r.future
             /\ made' = made + inner.made
             /\ gets' = gets \o r.sends
             /\ polled' = Append(polled, r.ret)
    /\ UNCHANGED arrived
    /\ UNCHANGED <<ttyVars, httpVars, buildVars, udsVars, clientVars>>

\* the request that was sent fails in the transport
ListSendFails ==
    /\ gets # <<>>
    /\ arrived.kind = "none"
    /\ arrived' = [kind |-> "failed"]
    /\ UNCHANGED <<future, made, gets, polled>>
    /\ UNCHANGED <<ttyVars, httpVars, buildVars, udsVars, clientVars>>

\* the head of the daemon's response arrives
ListResponds ==
    /\ gets # <<>>
    /\ arrived.kind = "none"
    /\ \E code \in Statuses, b \in ListBodies :
         arrived' = [kind |-> "response", status |-> code, body |-> b, whole |-> FALSE]
    /\ UNCHANGED <<future, made, gets, polled>>
    /\ UNCHANGED <<ttyVars, httpVars, buildVars, udsVars, clientVars>>

\* the rest of the response arrives
ListBodyArrives ==
    /\ arrived.kind = "response"
    /\ ~arrived.whole
    /\ arrived' = [arrived EXCEPT !.whole = TRUE]
    /\ UNCHANGED <<future, made, gets, polled>>
    /\ UNCHANGED <<ttyVars, httpVars, buildVars, udsVars, clientVars>>

NextList ==
    \/ ListPoll
    \/ ListSendFails
    \/ ListResponds
    \/ ListBodyArrives

SpecList == InitList /\ [][NextList]_vars

\* C27: however often the List builder is polled, the first poll makes the
\* inner future, every later poll goes to that same future and makes none,
\* and at most one GET /containers/json is dispatched.
C27_OneInnerFuture ==
    [][ polled' # polled =>
          /\ made' = 1
          /\ future'.tag = "Some"
          /\ Len(gets') <= 1
          /\ \A i \in 1..Len(gets') : gets'[i] = ContainersJson
          /\ polled # <<>> =>
               /\ made' = made
               /\ gets' = gets
               /\ \E ok \in BOOLEAN :
                    /\ future' = InnerPoll(future, arrived, ok).future
                    /\ polled'[Len(polled')] = InnerPoll(future, arrived, ok).ret
      ]_vars

\* three polls of one builder: two pending ones around the arrival of the
\* response, then the list
C27_Witness ==
    /\ Len(polled) = 3
    /\ polled[1] = Pending
    /\ polled[2] = Pending
    /\ polled[3].kind = "Ready"
    /\ polled[3].value.kind = "Ok"
    /\ made = 1
    /\ Len(gets) = 1

====
